---- MODULE Spec2Model ----
(***************************************************************************)
(* A model of ratatui-ractor: a driving loop (main), a View actor (App),   *)
(* a Worker actor (Counter) and the blocking computation units the Worker  *)
(* spawns.  Each actor handles one message at a time; a computation unit   *)
(* runs on its own thread and talks to the rest through a one-shot         *)
(* cancellation channel and one cast to the View actor.                    *)
(***************************************************************************)
EXTENDS Integers, Sequences, FiniteSets, TLC

\* ---------------------------------------------------------------- bounds
\* Input events the terminal delivers before it falls silent.
MaxEvents == 3

\* ------------------------------------------------------ program constants
\* for _ in 0..10: the ticks of one computation unit.
NumTicks == 10
\* counter: u8
U8 == 256

Keys == {"q", "Left", "Right", "other"}
\* event::read(): a key press, or anything else (release, repeat, resize...)
Events == Keys \cup {"nonpress"}

VARIABLES
    overflow_checks, \* build profile: are arithmetic overflows checked (panic)?
    post_stop_hook,  \* which Counter is built: counter.rs (TRUE) has post_stop,
                     \* the one in main.rs (FALSE) has not
    pc,              \* main's position
    rpc,             \* the reply port of main's call!(app, Exit)
    events,          \* input events read so far
    restored,        \* ratatui::restore() has run
    registry,        \* ractor's name registry
    appStatus,       \* "running" | "stopped" | "failed"
    appStop,         \* app.stop(None) was called
    appMailbox,
    counter,         \* AppState.counter
    exit,            \* AppState.exit
    screen,          \* the counter value of the last frame drawn, -1 before any
    wStatus,         \* "running" | "stopped" | "failed"
    wStop,           \* counter.stop(None) was called
    wMailbox,        \* the IncrementCounter values waiting
    prev,            \* CounterState.prev: 0 is None, else the unit's id
    wpc,             \* the Worker's position inside handle / post_stop
    wmsg,            \* the message handle() is working on
    taken,           \* the BlockTask moved out of state.prev by take()
    tasks,           \* every computation unit ever spawned, by id
    undrawn          \* history: an UpdateCount was handled and no frame drawn since

vars == <<overflow_checks, post_stop_hook, pc, rpc, events, restored, registry,
          appStatus, appStop, appMailbox, counter, exit, screen,
          wStatus, wStop, wMailbox, prev, wpc, wmsg, taken, tasks, undrawn>>

buildVars == <<overflow_checks, post_stop_hook>>
mainVars == <<pc, rpc, events, restored>>
appVars == <<appStatus, appStop, appMailbox, counter, exit, screen>>
workerVars == <<wStatus, wStop, wMailbox, prev, wpc, wmsg, taken>>

\* ------------------------------------------------------------- messages
Msg(t, v, k) == [type |-> t, val |-> v, key |-> k, task |-> 0]
Draw == Msg("Draw", 0, "")
ExitQuery == Msg("Exit", 0, "")
HandleKey(k) == Msg("HandleKey", 0, k)
\* task: the unit that sent it (not in the code; for the properties only)
UpdateCount(n, id) == [type |-> "UpdateCount", val |-> n, key |-> "", task |-> id]

\* ------------------------------------------------------------------ Init
Init ==
    /\ overflow_checks \in BOOLEAN
    /\ post_stop_hook \in BOOLEAN
    /\ pc = "loop"
    /\ rpc = "idle"
    /\ events = 0
    /\ restored = FALSE
    /\ registry = {"app", "counter"}
    /\ appStatus = "running"
    /\ appStop = FALSE
    /\ appMailbox = <<>>
    /\ counter = 0
    /\ exit = FALSE
    /\ screen = -1
    /\ wStatus = "running"
    /\ wStop = FALSE
    /\ wMailbox = <<>>
    /\ prev = 0
    /\ wpc = "idle"
    /\ wmsg = 0
    /\ taken = 0
    /\ tasks = <<>>
    /\ undrawn = FALSE

\* ---------------------------------------------------------- driving loop
\* cast!/call! to the View: fails once its mailbox is closed
AppOpen == appStatus = "running"

\* while !call!(app, AppMessage::Exit)?  -- the send half
MainCallExit ==
    /\ pc = "loop"
    /\ IF AppOpen
         THEN /\ appMailbox' = Append(appMailbox, ExitQuery)
              /\ rpc' = "pending"
              /\ pc' = "wait_reply"
         ELSE /\ pc' = "failed"
              /\ UNCHANGED <<appMailbox, rpc>>
    /\ UNCHANGED <<buildVars, events, restored, registry, appStatus, appStop,
                   counter, exit, screen, workerVars, tasks>>
    /\ UNCHANGED undrawn

\* ... the reply half: true breaks the loop, a dropped port is an error
MainGotReply ==
    /\ pc = "wait_reply"
    /\ rpc \in {"true", "false", "dropped"}
    /\ pc' = CASE rpc = "true" -> "stop_app"
               [] rpc = "false" -> "draw"
               [] OTHER -> "failed"
    /\ rpc' = "idle"
    /\ UNCHANGED <<buildVars, events, restored, registry, appVars, workerVars, tasks>>
    /\ UNCHANGED undrawn

\* cast!(app, AppMessage::Draw)?
MainDraw ==
    /\ pc = "draw"
    /\ IF AppOpen
         THEN /\ appMailbox' = Append(appMailbox, Draw)
              /\ pc' = "read"
         ELSE /\ pc' = "failed"
              /\ UNCHANGED appMailbox
    /\ UNCHANGED <<buildVars, rpc, events, restored, registry, appStatus, appStop,
                   counter, exit, screen, workerVars, tasks>>
    /\ UNCHANGED undrawn

\* (mutant) the loop draws again without asking the View first
MainReadSkipsQuery(e) ==
    /\ pc = "read"
    /\ events < MaxEvents
    /\ events' = events + 1
    /\ IF e \in Keys
         THEN IF AppOpen
                THEN /\ appMailbox' = Append(appMailbox, HandleKey(e))
                     /\ pc' = "draw"
                ELSE /\ pc' = "failed"
                     /\ UNCHANGED appMailbox
         ELSE /\ pc' = "draw"
              /\ UNCHANGED appMailbox
    /\ UNCHANGED <<buildVars, rpc, restored, registry, appStatus, appStop,
                   counter, exit, screen, workerVars, tasks>>
    /\ UNCHANGED undrawn

\* match event::read()? { Event::Key(k) if k.kind == Press => cast!(app, HandleKey(k))?, _ => {} }
MainRead(e) ==
    /\ pc = "read"
    /\ events < MaxEvents
    /\ events' = events + 1
    /\ IF e \in Keys
         THEN IF AppOpen
                THEN /\ appMailbox' = Append(appMailbox, HandleKey(e))
                     /\ pc' = "loop"
                ELSE /\ pc' = "failed"
                     /\ UNCHANGED appMailbox
         ELSE /\ pc' = "loop"
              /\ UNCHANGED appMailbox
    /\ UNCHANGED <<buildVars, rpc, restored, registry, appStatus, appStop,
                   counter, exit, screen, workerVars, tasks>>
    /\ UNCHANGED undrawn

\* app.stop(None)
MainStopApp ==
    /\ pc = "stop_app"
    /\ appStop' = TRUE
    /\ pc' = "stop_counter"
    /\ UNCHANGED <<buildVars, rpc, events, restored, registry, appStatus, appMailbox,
                   counter, exit, screen, workerVars, tasks>>
    /\ UNCHANGED undrawn

\* counter.stop(None)
MainStopCounter ==
    /\ pc = "stop_counter"
    /\ wStop' = TRUE
    /\ pc' = "await_app"
    /\ UNCHANGED <<buildVars, rpc, events, restored, registry, appVars,
                   wStatus, wMailbox, prev, wpc, wmsg, taken, tasks>>
    /\ UNCHANGED undrawn

\* (mutant) main does not wait for the Worker's handle
WorkerTerminatedNoWait == TRUE

\* the actor's JoinHandle resolves once the actor has terminated
AppTerminated == appStatus # "running"
WorkerTerminated == wStatus # "running"

\* app_handle.await?
MainAwaitApp ==
    /\ pc = "await_app"
    /\ AppTerminated
    /\ pc' = "await_counter"
    /\ UNCHANGED <<buildVars, rpc, events, restored, registry, appVars, workerVars, tasks>>
    /\ UNCHANGED undrawn

\* counter_handle.await?
MainAwaitCounter ==
    /\ pc = "await_counter"
    /\ WorkerTerminated
    /\ pc' = "restore"
    /\ UNCHANGED <<buildVars, rpc, events, restored, registry, appVars, workerVars, tasks>>
    /\ UNCHANGED undrawn

\* ratatui::restore(); Ok(())
MainRestore ==
    /\ pc = "restore"
    /\ restored' = TRUE
    /\ pc' = "done"
    /\ UNCHANGED <<buildVars, rpc, events, registry, appVars, workerVars, tasks>>
    /\ UNCHANGED undrawn

\* ------------------------------------------------------------ u8 arithmetic
\* The value of a u8 operation whose exact result is r: r when it fits; out
\* of range it panics under overflow checks and wraps otherwise.
Panic == -1
u8(r) == IF r \in 0..(U8 - 1) THEN r
         ELSE IF overflow_checks THEN Panic ELSE r % U8

\* self.counter -= 1
decrement_counter(c) == u8(c - 1)

\* ------------------------------------------------------------- View actor
AppCanHandle(t) ==
    /\ appStatus = "running"
    /\ appMailbox # <<>>
    /\ Head(appMailbox).type = t

\* a handler panicked or returned Err: the actor dies, its mailbox closes,
\* its name leaves the registry and a pending reply port is dropped
AppDies ==
    /\ appStatus' = "failed"
    /\ appMailbox' = <<>>
    /\ registry' = registry \ {"app"}
    /\ rpc' = IF rpc = "pending" THEN "dropped" ELSE rpc

\* AppMessage::Draw => tui.draw(|frame| state.draw(frame))
AppDraw ==
    /\ AppCanHandle("Draw")
    /\ screen' = counter
    /\ undrawn' = FALSE
    /\ appMailbox' = Tail(appMailbox)
    /\ UNCHANGED <<buildVars, mainVars, registry, appStatus, appStop, counter, exit,
                   workerVars, tasks>>

\* (mutant) the update is stored but no redraw is requested
AppUpdateCountNoDraw ==
    /\ AppCanHandle("UpdateCount")
    /\ counter' = Head(appMailbox).val
    /\ appMailbox' = Tail(appMailbox)
    /\ undrawn' = TRUE
    /\ UNCHANGED <<buildVars, mainVars, registry, appStatus, appStop, exit, screen,
                   workerVars, tasks>>

\* AppMessage::UpdateCount(new) => { state.counter = new; cast!(myself, Draw)? }
AppUpdateCount ==
    /\ AppCanHandle("UpdateCount")
    /\ counter' = Head(appMailbox).val
    /\ appMailbox' = Append(Tail(appMailbox), Draw)
    /\ undrawn' = TRUE
    /\ UNCHANGED <<buildVars, mainVars, registry, appStatus, appStop, exit, screen,
                   workerVars, tasks>>

\* (mutant) answering the query consumes the flag
AppExitResets ==
    /\ AppCanHandle("Exit")
    /\ rpc' = IF exit THEN "true" ELSE "false"
    /\ exit' = FALSE
    /\ appMailbox' = Tail(appMailbox)
    /\ UNCHANGED <<buildVars, pc, events, restored, registry, appStatus, appStop,
                   counter, screen, workerVars, tasks, undrawn>>

\* AppMessage::Exit(reply) => reply.send(state.exit)?
AppExit ==
    /\ AppCanHandle("Exit")
    /\ rpc' = IF exit THEN "true" ELSE "false"
    /\ appMailbox' = Tail(appMailbox)
    /\ UNCHANGED <<buildVars, pc, events, restored, registry, appStatus, appStop,
                   counter, exit, screen, workerVars, tasks>>
    /\ UNCHANGED undrawn

\* where_is("counter").expect(..) and cast!(ctr, ..).unwrap() both succeed
CounterReachable == "counter" \in registry /\ wStatus = "running"

\* (mutant) quit also asks for a redraw
KeyQuitRedraws ==
    /\ exit' = TRUE
    /\ appMailbox' = Append(Tail(appMailbox), Draw)
    /\ UNCHANGED <<rpc, registry, appStatus, counter, wMailbox>>

\* KeyCode::Char('q') => self.exit()
KeyQuit ==
    /\ exit' = TRUE
    /\ appMailbox' = Tail(appMailbox)
    /\ UNCHANGED <<rpc, registry, appStatus, counter, wMailbox>>

\* KeyCode::Left => self.decrement_counter()
KeyLeft ==
    IF decrement_counter(counter) = Panic
      THEN /\ AppDies
           /\ UNCHANGED <<counter, exit, wMailbox>>
      ELSE /\ counter' = decrement_counter(counter)
           /\ appMailbox' = Tail(appMailbox)
           /\ UNCHANGED <<rpc, registry, appStatus, exit, wMailbox>>

\* KeyCode::Right => cast!(where_is("counter").expect(..), IncrementCounter(self.counter)).unwrap()
KeyRight ==
    IF CounterReachable
      THEN /\ wMailbox' = Append(wMailbox, counter)
           /\ appMailbox' = Tail(appMailbox)
           /\ UNCHANGED <<rpc, registry, appStatus, counter, exit>>
      ELSE /\ AppDies
           /\ UNCHANGED <<counter, exit, wMailbox>>

\* _ => {}
KeyOther ==
    /\ appMailbox' = Tail(appMailbox)
    /\ UNCHANGED <<rpc, registry, appStatus, counter, exit, wMailbox>>

\* the key of the HandleKey message at the head of the mailbox
HeadKey == Head(appMailbox).key

\* AppMessage::HandleKey(evt) => state.handle_key_event(evt)
AppHandleKey ==
    /\ AppCanHandle("HandleKey")
    /\ CASE HeadKey = "q" -> KeyQuit
         [] HeadKey = "Left" -> KeyLeft
         [] HeadKey = "Right" -> KeyRight
         [] OTHER -> KeyOther
    /\ UNCHANGED <<buildVars, pc, events, restored, appStop, screen,
                   wStatus, wStop, prev, wpc, wmsg, taken, tasks>>
    /\ UNCHANGED undrawn

\* the stop signal is taken between two messages; what is left in the
\* mailbox is dropped (App has no post_stop of its own)
AppStopped ==
    /\ appStatus = "running"
    /\ appStop
    /\ appStatus' = "stopped"
    /\ appMailbox' = <<>>
    /\ registry' = registry \ {"app"}
    /\ rpc' = IF rpc = "pending" THEN "dropped" ELSE rpc
    /\ UNCHANGED <<buildVars, pc, events, restored, appStop, counter, exit, screen,
                   workerVars, tasks>>
    /\ UNCHANGED undrawn

\* ------------------------------------------------------ computation units
\* spawn_blocking(move || { .. }) with a fresh oneshot channel
\*   cur    the value the request carried
\*   tick   cancellation checks done so far
\*   cancel a signal sits in the oneshot channel
\*   st     "running"; "exiting" once the closure has returned and dropped
\*          recv; "finished" once the JoinHandle reports it
\*   res    the closure's result: "ok", "err" (the cast failed), "panic"
\*   sent   the value cast to the View, -1 if none
\*   cancelAt  the checks the closure had made when the signal was sent,
\*          -1 if none was sent (not in the code; for the properties only)
NewUnit(v) == [cur |-> v, tick |-> 0, cancel |-> FALSE, st |-> "running",
               res |-> "none", sent |-> -1, cancelAt |-> -1]

TaskIds == 1..Len(tasks)

\* handle.is_finished()
is_finished(h) == tasks[h].st = "finished"

\* (mutant) the handle of a cancelled unit never becomes ready
JoinReadyUnlessCancelled(h) == tasks[h].st = "finished" /\ ~tasks[h].cancel

\* (mutant) the drain returns as soon as the closure has returned
JoinReadyEarly(h) == tasks[h].st # "running"

\* (mutant) the drain does not wait for the unit at all
JoinReadyNoWait(h) == TRUE

\* handle.await is ready
JoinReady(h) == tasks[h].st = "finished"

\* (mutant) the drain discards the unit's result
JoinFailedIgnored(h) == FALSE

\* handle.await?? is an error: the unit panicked (JoinError) or returned Err
JoinFailed(h) == tasks[h].res \in {"err", "panic"}

\* oneshot Sender::send succeeds while the Receiver is not dropped
ReceiverAlive(h) == tasks[h].st = "running"

\* (mutant) the signal is seen one check late
GotCancellationLate(t) == t.cancel /\ t.tick > t.cancelAt

\* (mutant) the closure never looks at its Receiver
GotCancellationNever(t) == FALSE

\* recv.try_recv() is Ok(())
GotCancellation(t) == t.cancel

\* cur + 1
increment(cur) == u8(cur + 1)

\* std::thread::sleep(1s); if let Ok(()) = recv.try_recv() { return Ok(()) }
TaskTick(id) ==
    /\ id \in TaskIds
    /\ tasks[id].st = "running"
    /\ tasks[id].tick < NumTicks
    /\ tasks' = [tasks EXCEPT ![id] =
            IF GotCancellation(@)
              THEN [@ EXCEPT !.tick = @ + 1, !.st = "exiting", !.res = "ok"]
              ELSE [@ EXCEPT !.tick = @ + 1]]
    /\ UNCHANGED <<buildVars, mainVars, registry, appVars, workerVars>>
    /\ UNCHANGED undrawn

\* cast!(app, AppMessage::UpdateCount(cur + 1))?; Ok(())
TaskSend(id) ==
    /\ id \in TaskIds
    /\ tasks[id].st = "running"
    /\ tasks[id].tick = NumTicks
    /\ LET v == increment(tasks[id].cur) IN
         IF v = Panic
           THEN /\ tasks' = [tasks EXCEPT ![id].st = "exiting", ![id].res = "panic"]
                /\ UNCHANGED appMailbox
           ELSE IF AppOpen
             THEN /\ appMailbox' = Append(appMailbox, UpdateCount(v, id))
                  /\ tasks' = [tasks EXCEPT ![id].st = "exiting", ![id].res = "ok",
                                            ![id].sent = v]
             ELSE /\ tasks' = [tasks EXCEPT ![id].st = "exiting", ![id].res = "err"]
                  /\ UNCHANGED appMailbox
    /\ UNCHANGED <<buildVars, mainVars, registry, appStatus, appStop, counter, exit,
                   screen, workerVars>>
    /\ UNCHANGED undrawn

\* the blocking pool stores the closure's result; the JoinHandle is ready
TaskFinish(id) ==
    /\ id \in TaskIds
    /\ tasks[id].st = "exiting"
    /\ tasks' = [tasks EXCEPT ![id].st = "finished"]
    /\ UNCHANGED <<buildVars, mainVars, registry, appVars, workerVars>>
    /\ UNCHANGED undrawn

\* ----------------------------------------------------------- Worker actor
\* the actor terminates: its state (prev, with the canceller) is dropped,
\* its mailbox closes and its name leaves the registry
WorkerEnds(how) ==
    /\ wStatus' = how
    /\ wMailbox' = <<>>
    /\ registry' = registry \ {"counter"}
    /\ prev' = 0
    /\ wpc' = "idle"
    /\ wmsg' = 0
    /\ taken' = 0

\* the rest of handle(): look the View up, spawn the unit, store the slot
\* (the message is still at the head of the mailbox when there was no slot
\* to drain, and was taken off it before the drain otherwise)
SpawnUnit(v) ==
    IF "app" \in registry
      THEN /\ tasks' = Append(tasks, NewUnit(v))
           /\ prev' = Len(tasks) + 1
           /\ wpc' = "idle"
           /\ wmsg' = 0
           /\ taken' = 0
           /\ wMailbox' = IF wpc = "idle" THEN Tail(wMailbox) ELSE wMailbox
           /\ UNCHANGED <<wStatus, registry>>
      ELSE /\ WorkerEnds("failed")
           /\ UNCHANGED tasks

\* handle(): state.prev.take(), and handle.is_finished() if there was a slot
WorkerHandle ==
    /\ wStatus = "running"
    /\ wpc = "idle"
    /\ wMailbox # <<>>
    /\ LET v == Head(wMailbox) IN
         IF prev = 0
           THEN SpawnUnit(v)
           ELSE /\ taken' = prev
                /\ prev' = 0
                /\ wmsg' = v
                /\ wpc' = IF is_finished(prev) THEN "await" ELSE "cancel"
                /\ wMailbox' = Tail(wMailbox)
                /\ UNCHANGED <<wStatus, registry, tasks>>
    /\ UNCHANGED <<buildVars, mainVars, appVars, wStop>>
    /\ UNCHANGED undrawn

\* canceller.send(()).unwrap()
WorkerCancel ==
    /\ wStatus = "running"
    /\ wpc = "cancel"
    /\ IF ReceiverAlive(taken)
         THEN /\ tasks' = [tasks EXCEPT ![taken].cancel = TRUE,
                                            ![taken].cancelAt = tasks[taken].tick]
              /\ wpc' = "await"
              /\ UNCHANGED <<wStatus, wMailbox, registry, prev, wmsg, taken>>
         ELSE /\ WorkerEnds("failed")
              /\ UNCHANGED tasks
    /\ UNCHANGED <<buildVars, mainVars, appVars, wStop>>
    /\ UNCHANGED undrawn

\* handle.await??; then the rest of handle()
WorkerAwait ==
    /\ wStatus = "running"
    /\ wpc = "await"
    /\ JoinReady(taken)
    /\ IF JoinFailed(taken)
         THEN /\ WorkerEnds("failed")
              /\ UNCHANGED tasks
         ELSE SpawnUnit(wmsg)
    /\ UNCHANGED <<buildVars, mainVars, appVars, wStop>>
    /\ UNCHANGED undrawn

\* the stop signal is taken between two messages; the waiting messages are
\* dropped and post_stop runs, if this Counter has one
WorkerStop ==
    /\ wStatus = "running"
    /\ wpc = "idle"
    /\ wStop
    /\ IF post_stop_hook /\ prev # 0
         THEN /\ taken' = prev
              /\ prev' = 0
              /\ wpc' = IF is_finished(prev) THEN "ps_await" ELSE "ps_cancel"
              /\ wMailbox' = <<>>
              /\ UNCHANGED <<wStatus, registry, wmsg>>
         ELSE WorkerEnds("stopped")
    /\ UNCHANGED <<buildVars, mainVars, appVars, wStop, tasks>>
    /\ UNCHANGED undrawn

\* post_stop(): canceller.send(()).unwrap()
WorkerPostStopCancel ==
    /\ wStatus = "running"
    /\ wpc = "ps_cancel"
    /\ IF ReceiverAlive(taken)
         THEN /\ tasks' = [tasks EXCEPT ![taken].cancel = TRUE,
                                            ![taken].cancelAt = tasks[taken].tick]
              /\ wpc' = "ps_await"
              /\ UNCHANGED <<wStatus, wMailbox, registry, prev, wmsg, taken>>
         ELSE /\ WorkerEnds("failed")
              /\ UNCHANGED tasks
    /\ UNCHANGED <<buildVars, mainVars, appVars, wStop>>
    /\ UNCHANGED undrawn

\* post_stop(): handle.await??; Ok(())
WorkerPostStopAwait ==
    /\ wStatus = "running"
    /\ wpc = "ps_await"
    /\ JoinReady(taken)
    /\ WorkerEnds(IF JoinFailed(taken) THEN "failed" ELSE "stopped")
    /\ UNCHANGED <<buildVars, mainVars, appVars, wStop, tasks>>
    /\ UNCHANGED undrawn

\* ------------------------------------------------------------------ Next
Next ==
    \/ MainCallExit
    \/ MainGotReply
    \/ MainDraw
    \/ \E e \in Events : MainRead(e)
    \/ MainStopApp
    \/ MainStopCounter
    \/ MainAwaitApp
    \/ MainAwaitCounter
    \/ MainRestore
    \/ AppDraw
    \/ AppUpdateCount
    \/ AppExit
    \/ AppHandleKey
    \/ AppStopped
    \/ WorkerHandle
    \/ WorkerCancel
    \/ WorkerAwait
    \/ WorkerStop
    \/ WorkerPostStopCancel
    \/ WorkerPostStopAwait
    \/ \E id \in TaskIds : TaskTick(id)
    \/ \E id \in TaskIds : TaskSend(id)
    \/ \E id \in TaskIds : TaskFinish(id)

Spec == Init /\ [][Next]_vars

\* Scheduling: the runtime keeps polling every task that can make progress
\* and every blocking thread keeps running.  Only the terminal is free to
\* stay silent: event::read() may block for ever.
MainStep ==
    \/ MainCallExit \/ MainGotReply \/ MainDraw \/ MainStopApp \/ MainStopCounter
    \/ MainAwaitApp \/ MainAwaitCounter \/ MainRestore
AppStep == AppDraw \/ AppUpdateCount \/ AppExit \/ AppHandleKey \/ AppStopped
WorkerStep ==
    \/ WorkerHandle \/ WorkerCancel \/ WorkerAwait
    \/ WorkerStop \/ WorkerPostStopCancel \/ WorkerPostStopAwait
TaskStep == \E id \in TaskIds : TaskTick(id) \/ TaskSend(id) \/ TaskFinish(id)

FairSpec ==
    /\ Spec
    /\ WF_vars(MainStep)
    /\ WF_vars(AppStep)
    /\ WF_vars(WorkerStep)
    /\ WF_vars(TaskStep)

\* ================================================================ claims
Unresolved == {id \in TaskIds : tasks[id].st # "finished"}

\* C1: in every reachable state at most one computation unit is unresolved
\* (its JoinHandle not yet finished), and a unit that is not the newest one
\* is resolved: the Worker spawns a unit only after it drained the previous.
C1_AtMostOneUnresolved ==
    /\ Cardinality(Unresolved) <= 1
    /\ \A id \in TaskIds : id < Len(tasks) => tasks[id].st = "finished"

\* a second unit runs after the first was cancelled and drained
C1_Witness ==
    /\ Len(tasks) >= 2
    /\ tasks[1].cancel /\ tasks[1].st = "finished"
    /\ tasks[2].st = "running" /\ tasks[2].tick >= 1

\* the UpdateCount messages waiting in the View's mailbox, in order
Updates == SelectSeq(appMailbox, LAMBDA m : m.type = "UpdateCount")

\* C2: a unit delivers at most one UpdateCount, a unit that has a successor
\* can deliver nothing any more, and the UpdateCounts in the View's mailbox
\* are in the order in which the Worker accepted their requests.
C2_NoStaleUpdate ==
    /\ \A id \in TaskIds :
         /\ Cardinality({i \in 1..Len(Updates) : Updates[i].task = id}) <= 1
         /\ id < Len(tasks) => tasks[id].st # "running"
    /\ \A i, j \in 1..Len(Updates) : i < j => Updates[i].task < Updates[j].task

\* R2 arrived before R1 completed: R1 was cancelled, R2 has delivered
C2_Witness ==
    /\ Len(tasks) >= 2
    /\ tasks[1].cancel /\ tasks[1].sent = -1
    /\ Len(Updates) = 1 /\ Updates[1].task = 2

\* unit id was cancelled before its first cancellation check, i.e. within
\* its first tick window, and left at that check
CancelledInFirstTick(id) ==
    /\ tasks[id].cancel
    /\ tasks[id].tick = 1
    /\ tasks[id].st = "finished"

\* unit id ran undisturbed to its end with the View's mailbox open
CompletedUndisturbed(id) ==
    /\ ~tasks[id].cancel
    /\ tasks[id].res # "err"
    /\ tasks[id].st = "finished"

\* C3: two increments within one tick window: once the second unit has run
\* to its end (never cancelled, View alive), exactly one UpdateCount was
\* delivered for the pair, by the second unit, and its value is the counter
\* value of the second request plus 1.
C3_SecondRequestWins ==
    \A k \in TaskIds :
        (k + 1 \in TaskIds /\ CancelledInFirstTick(k) /\ CompletedUndisturbed(k + 1))
            => /\ tasks[k].sent = -1
               /\ tasks[k + 1].sent = tasks[k + 1].cur + 1

\* C4: a Worker that has finished stopping leaves no computation unit
\* behind: every unit it spawned has resolved.
C4_StopDrainsUnit ==
    wStatus = "stopped" => \A id \in TaskIds : tasks[id].st = "finished"

\* the state part of C5: stop order, and no return before both actors ended
C5_ShutdownOrder ==
    /\ (wStop => appStop)
    /\ (appStop => exit)
    /\ (pc \in {"restore", "done"} \/ restored)
          => (appStatus # "running" /\ wStatus # "running" /\ appStop /\ wStop)

\* C5: main stops the View, then the Worker, and only after the View has
\* set exit; it restores the terminal and returns only after both actors
\* have terminated; and once exit is set, main eventually returns.
C5_Shutdown == []C5_ShutdownOrder /\ (exit ~> (pc = "done" /\ restored))

\* main has returned after a shutdown that found a unit in flight
C5_Witness ==
    /\ pc = "done"
    /\ \E id \in TaskIds : tasks[id].cancel /\ tasks[id].tick < NumTicks

\* C6: a unit that was never sent a cancellation signal and found the
\* View's mailbox open has run all its ticks, resolved as completed and
\* delivered UpdateCount(v + 1) for its request value v; every UpdateCount
\* waiting at the View carries its request's value plus 1.
C6_CompletesWithSuccessor ==
    /\ \A id \in TaskIds : CompletedUndisturbed(id) =>
          /\ tasks[id].tick = NumTicks
          /\ tasks[id].res = "ok"
          /\ tasks[id].sent = tasks[id].cur + 1
    /\ \A i \in 1..Len(Updates) : Updates[i].val = tasks[Updates[i].task].cur + 1

DrawCount(mb) == Len(SelectSeq(mb, LAMBDA m : m.type = "Draw"))

\* C7 (step): handling UpdateCount(n) sets counter to n, leaves exit alone
\* and puts exactly one Draw at the end of the View's own mailbox; a Draw
\* leaves the mailbox only by drawing the counter as it then is, or with
\* the View's end.
C7_UpdateStep ==
    /\ AppUpdateCount =>
          /\ counter' = Head(appMailbox).val
          /\ exit' = exit
          /\ appStatus' = "running"
          /\ appMailbox' = Append(Tail(appMailbox), Draw)
    /\ DrawCount(appMailbox') < DrawCount(appMailbox) =>
          \/ appStatus' # "running"
          \/ /\ DrawCount(appMailbox') = DrawCount(appMailbox) - 1
             /\ counter' = counter
             /\ screen' = counter

\* C7: every handled UpdateCount has a Draw waiting behind it while the
\* View runs, and is followed by a frame (or by the View's end).
C7_UpdateIsDrawn ==
    /\ [][C7_UpdateStep]_vars
    /\ []((undrawn /\ appStatus = "running") => DrawCount(appMailbox) >= 1)
    /\ (undrawn ~> (~undrawn \/ appStatus # "running"))

\* the first unit's UpdateCount(1) was handled and the frame shows it
C7_Witness ==
    /\ Len(tasks) >= 1 /\ tasks[1].sent = 1
    /\ counter = 1 /\ screen = 1 /\ ~undrawn
    /\ appStatus = "running"

\* one step, as C8 has it
C8_IncrementStep ==
    /\ (AppHandleKey /\ HeadKey = "Right") =>
          /\ wMailbox' = Append(wMailbox, counter)
          /\ counter' = counter
          /\ exit' = exit
          /\ appStatus' = "running"
    /\ counter' # counter => (AppUpdateCount \/ (AppHandleKey /\ HeadKey = "Left"))

\* C8: handling an increment key sends exactly one IncrementCounter with
\* the current counter to the Worker and changes neither counter nor exit;
\* counter changes only by a decrement key or an UpdateCount.
C8_IncrementForwards == [][C8_IncrementStep]_vars

NoIncrementInFlight ==
    /\ wMailbox = <<>>
    /\ wpc = "idle"
    /\ \A id \in TaskIds : tasks[id].st = "finished"
    /\ Updates = <<>>

\* one step, as C9 has it
C9_DecrementStep ==
    (AppHandleKey /\ HeadKey = "Left" /\ NoIncrementInFlight) =>
        /\ appStatus' = "running"
        /\ counter' \in (IF counter = 0 THEN {U8 - 1, 0} ELSE {counter - 1})
        /\ appMailbox' = Tail(appMailbox)
        /\ wMailbox' = wMailbox
        /\ exit' = exit

\* C9: with no increment in flight, handling a decrement key completes
\* normally with counter = c - 1 (at c = 0: 255 or 0, by the policy), sends
\* nothing and leaves exit alone.
C9_DecrementCompletes == [][C9_DecrementStep]_vars

\* one step, as C10 has it
C10_QuitStep ==
    /\ (AppHandleKey /\ HeadKey = "q") =>
          /\ exit' = TRUE
          /\ counter' = counter
          /\ appMailbox' = Tail(appMailbox)
          /\ wMailbox' = wMailbox
          /\ UNCHANGED <<appStatus, screen>>
    /\ (AppHandleKey /\ HeadKey = "other") =>
          /\ appMailbox' = Tail(appMailbox)
          /\ wMailbox' = wMailbox
          /\ UNCHANGED <<counter, exit, appStatus, screen>>

\* C10: handling the quit key sets exit, keeps counter and sends nothing
\* (no Draw to itself, nothing to the Worker); any unbound key changes
\* nothing of the View's state.
C10_QuitFrame == [][C10_QuitStep]_vars

\* quit was handled after a decrement: exit is set, the counter kept, no
\* Draw is waiting, and main is about to learn of it
C10_Witness ==
    /\ exit /\ appStatus = "running"
    /\ counter = U8 - 1
    /\ DrawCount(appMailbox) = 0
    /\ pc = "wait_reply"

\* one step, as C11 has it
C11_ExitStep ==
    /\ exit => exit'
    /\ AppExit =>
          /\ rpc' = (IF exit THEN "true" ELSE "false")
          /\ appMailbox' = Tail(appMailbox)
          /\ UNCHANGED <<exit, counter, screen, appStatus>>

\* C11: exit is false until a key was read, never goes back from true to
\* false whatever message is handled, and the Exit query replies the
\* current value and changes neither exit nor counter.
C11_ExitMonotonic == [](exit => events >= 1) /\ [][C11_ExitStep]_vars

\* the query was answered true after quit, and exit is still set
C11_Witness == exit /\ rpc = "true" /\ appStatus = "running"

\* the quit key is in the View's mailbox or was handled
QuitForwarded ==
    \/ exit
    \/ \E i \in 1..Len(appMailbox) : appMailbox[i] = HandleKey("q")

\* one step, as C12 has it
C12_QuitStep ==
    /\ QuitForwarded => QuitForwarded'
    /\ (QuitForwarded /\ MainGotReply) => pc' = "stop_app"
    /\ QuitForwarded => ~MainDraw /\ \A e \in Events : ~MainRead(e)

\* C12: once the loop has forwarded a quit key, the key is handled before
\* the loop's next Exit query is answered, the answer is true, and the loop
\* leaves without another Draw and without reading another event.
C12_NoDrawAfterQuit ==
    /\ [](QuitForwarded => /\ pc \notin {"draw", "read"}
                           /\ rpc \in {"true", "false"} => exit /\ rpc = "true")
    /\ [][C12_QuitStep]_vars

\* the loop got its answer after a quit key and is about to stop the View
C12_Witness == exit /\ pc = "stop_app" /\ rpc = "idle" /\ events >= 1

\* one step, as C13 has it
C13_CancelStep ==
    (WorkerCancel \/ WorkerPostStopCancel) =>
        /\ wStatus' = "running"
        /\ wpc' \in {"await", "ps_await"}

\* C13: sending the cancellation signal never fails the Worker's handler or
\* its stop hook, whatever the unit has done in the meantime: when the unit
\* has finished or is finishing the signal is dropped and the cycle goes on
\* to the drain.
C13_CancelIsNoOp == [][C13_CancelStep]_vars

\* the claim as stated: no unit that was sent the signal while running
\* delivers an UpdateCount
C14_CancelledNeverDelivers ==
    \A id \in TaskIds : tasks[id].cancel => tasks[id].sent = -1

\* C14: a unit that was sent the signal before its last check of the
\* Receiver returns at its next check without sending an UpdateCount; an
\* UpdateCount is sent only by a unit that made all its checks without
\* finding a signal, which includes a unit signalled after its last check.
C14_SlotLifecycle ==
    \A id \in TaskIds :
        LET t == tasks[id] IN
        /\ (t.cancel /\ t.cancelAt < NumTicks /\ t.st # "running") =>
              /\ t.sent = -1
              /\ t.res = "ok"
              /\ t.tick = t.cancelAt + 1
        /\ t.sent # -1 =>
              /\ t.tick = NumTicks
              /\ t.cancel => t.cancelAt = NumTicks
        /\ t.cancel <=> t.cancelAt # -1

\* a unit signalled in mid-run has resolved without a delivery
C14_Witness ==
    \E id \in TaskIds :
        /\ tasks[id].cancel /\ tasks[id].cancelAt \in 1..(NumTicks - 1)
        /\ tasks[id].st = "finished" /\ tasks[id].sent = -1

\* C15: the signal is looked at only at the unit's checks, once per tick:
\* a unit that was sent the signal while running makes at most one more
\* check before its closure returns, and none once it has returned, so the
\* drain that follows the signal waits for at most one tick.
C15_OneTickToResolve ==
    \A id \in TaskIds :
        LET t == tasks[id] IN
        t.cancel =>
            /\ t.tick <= t.cancelAt + 1
            /\ t.st # "running" => t.tick \in {t.cancelAt + 1, NumTicks}
            /\ (t.st = "running" /\ wpc \in {"await", "ps_await"} /\ taken = id)
                  => t.tick = t.cancelAt

\* the Worker is draining a unit it signalled in mid-run, which has since
\* made its one further check
C15_Witness ==
    /\ wpc = "await"
    /\ tasks[taken].cancel /\ tasks[taken].cancelAt \in 1..(NumTicks - 2)
    /\ tasks[taken].st = "exiting" /\ tasks[taken].tick = tasks[taken].cancelAt + 1

\* one step, as C16 has it: the steps that run where_is
C16_LookupStep ==
    pc \notin {"done", "failed"} =>
        /\ (AppHandleKey /\ HeadKey = "Right") => "counter" \in registry
        /\ (WorkerHandle /\ prev = 0) => "app" \in registry
        /\ (WorkerAwait /\ ~JoinFailed(taken)) => "app" \in registry

\* C16: until the loop has returned, every where_is an actor runs finds
\* its peer: the View finds "counter" when it handles an increment key and
\* the Worker finds "app" when it is about to start a unit, also while
\* the actors are being stopped.
C16_LookupsNeverMiss == [][C16_LookupStep]_vars

\* the unit made all its checks and its cast found the View's mailbox closed
FailedToDeliver(id) == tasks[id].res = "err"

\* one step, as C17 has it
C17_ResolveStep ==
    /\ ((WorkerAwait \/ WorkerPostStopAwait) /\ FailedToDeliver(taken)) =>
          /\ wStatus' = "failed"
          /\ tasks' = tasks
    /\ wStatus = "failed" => wStatus' = "failed" /\ Len(tasks') = Len(tasks)

WorkerLive == wStatus = "running" /\ ~wStop

\* one step, as C18 has it: the mailbox is a queue, and a request leaves it
\* only from the head, into the handler (or with the Worker's end)
C18_QueueStep ==
    wMailbox' # wMailbox =>
        \/ \E v \in 0..(U8 - 1) : wMailbox' = Append(wMailbox, v)
        \/ /\ wMailbox # <<>> /\ wMailbox' = Tail(wMailbox)
           /\ WorkerHandle
           /\ \/ wmsg' = Head(wMailbox) /\ wpc' \in {"await", "cancel"}
              \/ tasks' = Append(tasks, NewUnit(Head(wMailbox)))
        \/ wMailbox' = <<>> /\ (wStatus' # "running" \/ wStop)

\* nothing is left waiting: every unit has resolved, no drain is under way
\* and no request sits in the mailbox of a live, unstopped Worker
C18_Quiescent ==
    /\ \A id \in TaskIds : tasks[id].st = "finished"
    /\ wpc = "idle"
    /\ WorkerLive => wMailbox = <<>>

\* C18: no unit makes more than 10 checks, a unit that made them all or
\* found a signal returns, every drain the Worker starts comes to an end,
\* and a request in the mailbox of a live, unstopped Worker is taken by its
\* handler, the requests in the order they arrived. The keys read being
\* finitely many, the run therefore settles with nothing left waiting.
C18_WorkerNeverBlocks ==
    /\ [](\A id \in TaskIds : tasks[id].tick <= NumTicks)
    /\ [][C18_QueueStep]_vars
    /\ <>[]C18_Quiescent

\* a request waited in the mailbox during a drain and was then handled
C18_Witness ==
    /\ wStatus = "running" /\ ~wStop
    /\ Len(tasks) = 3 /\ tasks[2].cancel /\ tasks[2].st = "finished"
    /\ wMailbox = <<>> /\ wpc = "idle" /\ prev = 3

\* the value the View's counter had when it handled the increment key
\* that led to the UpdateCount at the head of its mailbox
Snapshot == tasks[Head(appMailbox).task].cur

\* one step, as C19 has it
C19_SnapshotStep ==
    AppUpdateCount => counter' = Snapshot + 1

\* C19: an increment carries the counter as it was when the key was
\* handled: whatever decrements the View has handled since, handling the
\* unit's UpdateCount leaves counter at that value plus one.
C19_SnapshotOverwrites == [][C19_SnapshotStep]_vars

====
